---- MODULE Spec2Model ----
(***************************************************************************)
(* rattler-server: the AvailablePackagesCache (a single-flight, expiring   *)
(* cache of repodata records keyed by platform URL) and the repodata fetch *)
(* pipeline (variant negotiation, streaming decode, off-thread parse).     *)
(*                                                                         *)
(* AvailablePackagesCache (src/src/available_packages_cache.rs) is a thin  *)
(* layer over crate::generic_cache::GenericCache, whose source is not part *)
(* of the files at hand; the GenericCache_* definitions below follow its   *)
(* description in spec.md, section 4.1.                                    *)
(***************************************************************************)
EXTENDS Integers, Sequences, FiniteSets, TLC

\* ------------------------------------------------------------------ bounds
\* Tasks that call get concurrently, and the platform URLs they ask for.
Tasks == {"t1", "t2", "t3"}
Keys == {"u1", "u2"}
\* The clock runs 0..MaxTime; get is called at most MaxCalls times in a run.
MaxTime == 3
MaxCalls == 3
\* The `expiration` argument given to AvailablePackagesCache::new.
Expiration == 2
\* A response body arrives in at most MaxChunks chunks.
MaxChunks == 2

\* Every call starts at most one fetch.
FetchIds == 1..MaxCalls

VARIABLES
    now,        \* the clock read by Instant::now / elapsed
    entries,    \* GenericCache map: key -> CacheEntry (value 0: no entry)
    pending,    \* GenericCache PendingSlot per key: 0, or the id of the fetch in flight
    pc,         \* per task: where it is inside get
    key,        \* per task: platform_url of its running get ("none" outside a call)
    token,      \* per task: write_token it holds (0: none, else the fetch id)
    waited,     \* per task: the fetch whose PendingSlot it last suspended on (0: none)
    rel,        \* per task: how ("set" or "drop") and when it was last released from
                \* suspension in this call
    ret,        \* the call of get that ended in the last step and what it returned
                \* (NoReturn when the last step ended no call)
    ncalls,     \* calls of get made so far
    fetchLog,   \* per fetch id: "unused", "inflight", "ok" (stored by set) or "failed"
    heap,       \* per fetch id: the records held by the Arc that set allocated for it
                \* (0: not allocated; the records produced by fetch g are named g)
    found,      \* the Arcs that Found results have handed out, each with the records
                \* it held when it was returned
    fpc,        \* get_repodata: where the pipeline is
    avail,      \* the server: which compressed variants check_variant_availability reports
    server,     \* the server: response status, and whether the document is valid JSON
    stream,     \* the response body still to be read: chunks or an I/O error
    url,        \* get_repodata: the file name joined to the platform URL
    encoding,   \* get_repodata: Option<Encoding> handed to stream_and_decode_to_memory
    decoder,    \* stream_and_decode_to_memory: the match arm that reads the body
    json_bytes, \* stream_and_decode_to_memory: the buffer (len, and whether it holds the document)
    parse_ctx,  \* where the parse closure ran: "none", "io" or "blocking"
    outcome     \* get_repodata: "none", "records" or the error returned

cacheVars ==
    <<now, entries, pending, pc, key, token, waited, rel, ret, ncalls, fetchLog, heap, found>>
fetchVars == <<fpc, avail, server, stream, url, encoding, decoder, json_bytes, parse_ctx, outcome>>
vars == <<cacheVars, fetchVars>>

NoEntry == [value |-> 0, inserted_at |-> 0]
NoFetch == "unused"
NoRelease == [how |-> "none", at |-> 0]

\* What a call of get returned: kind "ok" (value: the records, named by the id
\* of the fetch that produced them; src: "cache" or "fetch"; age: how old they
\* were when read), kind "err" (src: the ApiError variant; value: the fetch
\* that failed) or kind "cancelled"; with the call's task and key, the write
\* handle it held when it ended, the fetch it was last suspended on and how
\* it was released, the callers registered on its PendingSlot that had not
\* parked yet when the end of the call released them, and the execution
\* context on which the call ran RepoData::from_path (lines 63-66 are plain
\* statements of the async fn: a call that gets as far as them, returning its
\* own records or the load error, runs them inside its own poll, "io").
NoReturn ==
    [task |-> "none", key |-> "none", kind |-> "none", value |-> 0, src |-> "none",
     age |-> 0, held |-> 0, waited |-> 0, rel |-> NoRelease, early |-> {},
     load_ctx |-> "none"]
Return(t, kd, v, s, a) ==
    [task |-> t, key |-> key[t], kind |-> kd, value |-> v, src |-> s,
     age |-> a, held |-> token[t], waited |-> waited[t], rel |-> rel[t],
     early |-> IF token[t] = 0 THEN {}
               ELSE {u \in Tasks : pc[u] = "waiting" /\ key[u] = key[t]},
     load_ctx |-> IF s \in {"fetch", "Internal"} THEN "io" ELSE "none"]

\* ------------------------------------------------- AvailablePackagesCache::new
\* As cache_expiration, but a longer duration reaches the GenericCache.
cache_expiration_Plus == Expiration + 1

\* new hands `expiration` on to GenericCache::with_expiration unchanged.
cache_expiration == Expiration

\* ------------------------------------------------------------ GenericCache
\* Age of the entry stored for k.
Age(k) == now - entries[k].inserted_at

\* A live (non-expired) entry exists for k: queried at T' < T + ttl.
Live(k) == entries[k].value # 0 /\ Age(k) < cache_expiration

\* What get_cached(k) does in the current state.
GenericCache_get_cached(k) ==
    IF Live(k) THEN "Found"
    ELSE IF pending[k] # 0 THEN "Pending"
    ELSE "NotFound"

\* As Waiters, but a caller counts only once it has parked: one that has
\* seen the PendingSlot and is about to park is not registered on it.
Waiters_Parked(k) == {t \in Tasks : pc[t] = "parked" /\ key[t] = k}

\* The callers suspended on k's PendingSlot: those that have seen it in
\* get_cached ("waiting": registered on it, about to park) and those that
\* have parked.
Waiters(k) == {t \in Tasks : pc[t] \in {"waiting", "parked"} /\ key[t] = k}

\* set(write_handle, value): the entry map after storing value for k now.
GenericCache_set(k, v) == [entries EXCEPT ![k] = [value |-> v, inserted_at |-> now]]

\* The PendingSlot map after k's slot is released (by set or by drop).
GenericCache_release(k) == [pending EXCEPT ![k] = 0]

\* gc(): the entry map with every entry older than the ttl removed.
GenericCache_gc ==
    [k \in Keys |->
        IF entries[k].value # 0 /\ Age(k) > cache_expiration
        THEN NoEntry ELSE entries[k]]

\* pc and rel after the callers suspended on k are released to re-check, the
\* call of t itself having ended.
ReleasedPc(t, k) ==
    [u \in Tasks |-> IF u = t THEN "idle" ELSE IF u \in Waiters(k) THEN "get_cached" ELSE pc[u]]
ReleasedRel(t, k, how) ==
    [u \in Tasks |->
        IF u = t THEN NoRelease
        ELSE IF u \in Waiters(k)
             THEN [how |-> how, at |-> IF how = "set" THEN now ELSE 0]
        ELSE rel[u]]

\* ------------------------------------------------------------------- Init
CacheInit ==
    /\ now = 0
    /\ entries = [k \in Keys |-> NoEntry]
    /\ pending = [k \in Keys |-> 0]
    /\ pc = [t \in Tasks |-> "idle"]
    /\ key = [t \in Tasks |-> "none"]
    /\ token = [t \in Tasks |-> 0]
    /\ waited = [t \in Tasks |-> 0]
    /\ rel = [t \in Tasks |-> NoRelease]
    /\ ret = NoReturn
    /\ ncalls = 0
    /\ fetchLog = [g \in FetchIds |-> NoFetch]
    /\ heap = [g \in FetchIds |-> 0]
    /\ found = {}

\* No get_repodata call is running.
FetchIdle ==
    /\ fpc = "idle"
    /\ avail = [zst |-> FALSE, bz2 |-> FALSE]
    /\ server = [status_ok |-> TRUE, valid_json |-> TRUE]
    /\ stream = <<>>
    /\ url = "none"
    /\ encoding = "unset"
    /\ decoder = "none"
    /\ json_bytes = [len |-> 0, document |-> TRUE]
    /\ parse_ctx = "none"
    /\ outcome = "none"

Init == CacheInit /\ FetchIdle

\* Fetch ids handed out so far.
Started == {g \in FetchIds : fetchLog[g] # "unused"}
NextFetchId == Cardinality(Started) + 1

\* ---------------------------------------------- AvailablePackagesCache::get
\* A task calls get(channel, platform); platform_url is computed (line 43).
get_call(t, k) ==
    /\ pc[t] = "idle"
    /\ ncalls < MaxCalls
    /\ ncalls' = ncalls + 1
    /\ pc' = [pc EXCEPT ![t] = "get_cached"]
    /\ key' = [key EXCEPT ![t] = k]
    /\ ret' = NoReturn
    /\ UNCHANGED <<now, entries, pending, token, waited, rel, fetchLog>>
    /\ UNCHANGED <<heap, found>>
    /\ UNCHANGED fetchVars

\* As get_found, but an empty list is returned in place of the cached records.
get_found_Empty(t) ==
    /\ pc[t] = "get_cached"
    /\ GenericCache_get_cached(key[t]) = "Found"
    /\ ret' = Return(t, "ok", 0, "cache", Age(key[t]))
    /\ pc' = [pc EXCEPT ![t] = "idle"]
    /\ key' = [key EXCEPT ![t] = "none"]
    /\ waited' = [waited EXCEPT ![t] = 0]
    /\ rel' = [rel EXCEPT ![t] = NoRelease]
    /\ UNCHANGED <<now, entries, pending, token, ncalls, fetchLog>>
    /\ found' = found \cup {[arc |-> entries[key[t]].value, value |-> heap[entries[key[t]].value]]}
    /\ heap' = heap
    /\ UNCHANGED fetchVars

\* As get_found, but the read refreshes the entry's time stamp.
get_found_Touch(t) ==
    /\ pc[t] = "get_cached"
    /\ GenericCache_get_cached(key[t]) = "Found"
    /\ ret' = Return(t, "ok", heap[entries[key[t]].value], "cache", Age(key[t]))
    /\ entries' = [entries EXCEPT ![key[t]].inserted_at = now]
    /\ pc' = [pc EXCEPT ![t] = "idle"]
    /\ key' = [key EXCEPT ![t] = "none"]
    /\ waited' = [waited EXCEPT ![t] = 0]
    /\ rel' = [rel EXCEPT ![t] = NoRelease]
    /\ found' = found \cup {[arc |-> entries[key[t]].value, value |-> heap[entries[key[t]].value]]}
    /\ UNCHANGED <<now, pending, token, ncalls, fetchLog, heap>>
    /\ UNCHANGED fetchVars

\* get_cached answers Found(repodata): get returns a copy of the records the
\* Arc holds (line 45).
get_found(t) ==
    /\ pc[t] = "get_cached"
    /\ GenericCache_get_cached(key[t]) = "Found"
    /\ ret' = Return(t, "ok", heap[entries[key[t]].value], "cache", Age(key[t]))
    /\ pc' = [pc EXCEPT ![t] = "idle"]
    /\ key' = [key EXCEPT ![t] = "none"]
    /\ waited' = [waited EXCEPT ![t] = 0]
    /\ rel' = [rel EXCEPT ![t] = NoRelease]
    /\ UNCHANGED <<now, entries, pending, token, ncalls, fetchLog>>
    /\ found' = found \cup {[arc |-> entries[key[t]].value, value |-> heap[entries[key[t]].value]]}
    /\ heap' = heap
    /\ UNCHANGED fetchVars

\* get_cached finds a PendingSlot and registers the caller on it: the await
\* of line 44 is about to suspend the task.
get_suspend(t) ==
    /\ pc[t] = "get_cached"
    /\ GenericCache_get_cached(key[t]) = "Pending"
    /\ pc' = [pc EXCEPT ![t] = "waiting"]
    /\ waited' = [waited EXCEPT ![t] = pending[key[t]]]
    /\ rel' = [rel EXCEPT ![t] = NoRelease]
    /\ ret' = NoReturn
    /\ UNCHANGED <<now, entries, pending, key, token, ncalls, fetchLog>>
    /\ UNCHANGED <<heap, found>>
    /\ UNCHANGED fetchVars

\* The await of line 44 returns Pending to the executor: the task is parked
\* until the slot it registered on is released.
get_park(t) ==
    /\ pc[t] = "waiting"
    /\ pc' = [pc EXCEPT ![t] = "parked"]
    /\ ret' = NoReturn
    /\ UNCHANGED <<now, entries, pending, key, token, waited, rel, ncalls, fetchLog>>
    /\ UNCHANGED <<heap, found>>
    /\ UNCHANGED fetchVars

\* As get_not_found, but the guard is dropped at once (`let _ = write_guard`):
\* the PendingSlot is released while the download still runs.
get_not_found_EarlyDrop(t) ==
    /\ pc[t] = "get_cached"
    /\ GenericCache_get_cached(key[t]) = "NotFound"
    /\ token' = [token EXCEPT ![t] = NextFetchId]
    /\ fetchLog' = [fetchLog EXCEPT ![NextFetchId] = "inflight"]
    /\ pc' = [pc EXCEPT ![t] = "fetching"]
    /\ ret' = NoReturn
    /\ UNCHANGED <<now, entries, pending, key, waited, rel, ncalls>>
    /\ UNCHANGED <<heap, found>>
    /\ UNCHANGED fetchVars

\* As get_not_found, but the key leaves out the platform: the PendingSlot is
\* installed for every platform url of the channel.
get_not_found_AllKeys(t) ==
    /\ pc[t] = "get_cached"
    /\ GenericCache_get_cached(key[t]) = "NotFound"
    /\ pending' = [k \in Keys |-> IF pending[k] = 0 THEN NextFetchId ELSE pending[k]]
    /\ token' = [token EXCEPT ![t] = NextFetchId]
    /\ fetchLog' = [fetchLog EXCEPT ![NextFetchId] = "inflight"]
    /\ pc' = [pc EXCEPT ![t] = "fetching"]
    /\ ret' = NoReturn
    /\ UNCHANGED <<now, entries, key, waited, rel, ncalls>>
    /\ UNCHANGED <<heap, found>>
    /\ UNCHANGED fetchVars

\* get_cached answers NotFound(write_guard): the task keeps it as write_token
\* and starts the download (lines 46-60).
get_not_found(t) ==
    /\ pc[t] = "get_cached"
    /\ GenericCache_get_cached(key[t]) = "NotFound"
    /\ pending' = [pending EXCEPT ![key[t]] = NextFetchId]
    /\ token' = [token EXCEPT ![t] = NextFetchId]
    /\ fetchLog' = [fetchLog EXCEPT ![NextFetchId] = "inflight"]
    /\ pc' = [pc EXCEPT ![t] = "fetching"]
    /\ ret' = NoReturn
    /\ UNCHANGED <<now, entries, key, waited, rel, ncalls>>
    /\ UNCHANGED <<heap, found>>
    /\ UNCHANGED fetchVars

\* As get_fail, but the handle is leaked (kept alive, as by mem::forget or a
\* stored guard): the call ends and the PendingSlot stays.
get_fail_Leak(t, e) ==
    /\ pc[t] = "fetching"
    /\ ret' = Return(t, "err", token[t], e, 0)
    /\ fetchLog' = [fetchLog EXCEPT ![token[t]] = "failed"]
    /\ pc' = [pc EXCEPT ![t] = "idle"]
    /\ UNCHANGED <<now, entries, pending, token, key, waited, rel, ncalls>>
    /\ UNCHANGED <<heap, found>>
    /\ UNCHANGED fetchVars

\* As get_fail, but the error is also handed to the callers suspended on the
\* key: their calls end with the holder's error.
get_fail_Broadcast(t, e) ==
    /\ pc[t] = "fetching"
    /\ \E u \in (IF Waiters(key[t]) = {} THEN {t} ELSE Waiters(key[t])) :
            ret' = Return(u, "err", token[t], e, 0)
    /\ pending' = GenericCache_release(key[t])
    /\ token' = [token EXCEPT ![t] = 0]
    /\ fetchLog' = [fetchLog EXCEPT ![token[t]] = "failed"]
    /\ pc' = [u \in Tasks |-> IF u = t \/ u \in Waiters(key[t]) THEN "idle" ELSE pc[u]]
    /\ key' = [u \in Tasks |-> IF u = t \/ u \in Waiters(key[t]) THEN "none" ELSE key[u]]
    /\ waited' = [u \in Tasks |-> IF u = t \/ u \in Waiters(key[t]) THEN 0 ELSE waited[u]]
    /\ rel' = [u \in Tasks |-> IF u = t \/ u \in Waiters(key[t]) THEN NoRelease ELSE rel[u]]
    /\ UNCHANGED <<now, entries, ncalls>>
    /\ UNCHANGED <<heap, found>>
    /\ UNCHANGED fetchVars

\* As get_fail, but the failure also evicts the entry the map holds for the key.
get_fail_Evict(t, e) ==
    /\ pc[t] = "fetching"
    /\ ret' = Return(t, "err", token[t], e, 0)
    /\ entries' = [entries EXCEPT ![key[t]] = NoEntry]
    /\ pending' = GenericCache_release(key[t])
    /\ token' = [token EXCEPT ![t] = 0]
    /\ fetchLog' = [fetchLog EXCEPT ![token[t]] = "failed"]
    /\ pc' = ReleasedPc(t, key[t])
    /\ rel' = ReleasedRel(t, key[t], "drop")
    /\ key' = [key EXCEPT ![t] = "none"]
    /\ waited' = [waited EXCEPT ![t] = 0]
    /\ UNCHANGED <<now, ncalls>>
    /\ UNCHANGED <<heap, found>>
    /\ UNCHANGED fetchVars

\* get returns early with error e; write_token goes out of scope and is dropped.
get_fail(t, e) ==
    /\ pc[t] = "fetching"
    /\ ret' = Return(t, "err", token[t], e, 0)
    /\ pending' = GenericCache_release(key[t])
    /\ token' = [token EXCEPT ![t] = 0]
    /\ fetchLog' = [fetchLog EXCEPT ![token[t]] = "failed"]
    /\ pc' = ReleasedPc(t, key[t])
    /\ rel' = ReleasedRel(t, key[t], "drop")
    /\ key' = [key EXCEPT ![t] = "none"]
    /\ waited' = [waited EXCEPT ![t] = 0]
    /\ UNCHANGED <<now, entries, ncalls>>
    /\ UNCHANGED <<heap, found>>
    /\ UNCHANGED fetchVars

\* fetch_repo_data fails: `?` returns ApiError::FetchRepoDataJson (lines 50-61).
get_fetch_err(t) == get_fail(t, "FetchRepoDataJson")

\* As get_load_err, but the load error is only noticed after the cache was
\* updated: the records of the failed load are stored, then the error returned.
get_load_err_Stores(t) ==
    /\ pc[t] = "fetching"
    /\ entries' = GenericCache_set(key[t], token[t])
    /\ pending' = GenericCache_release(key[t])
    /\ ret' = Return(t, "err", token[t], "Internal", 0)
    /\ token' = [token EXCEPT ![t] = 0]
    /\ fetchLog' = [fetchLog EXCEPT ![token[t]] = "failed"]
    /\ pc' = ReleasedPc(t, key[t])
    /\ rel' = ReleasedRel(t, key[t], "set")
    /\ key' = [key EXCEPT ![t] = "none"]
    /\ waited' = [waited EXCEPT ![t] = 0]
    /\ UNCHANGED <<now, ncalls>>
    /\ heap' = [heap EXCEPT ![token[t]] = token[t]]
    /\ found' = found
    /\ UNCHANGED fetchVars

\* RepoData::from_path fails: `?` returns ApiError::Internal (lines 63-65).
get_load_err(t) == get_fail(t, "Internal")

\* As get_set, but the entry is stored without consuming the handle: the
\* PendingSlot stays while the call goes on to return.
get_set_KeepSlot(t) ==
    /\ pc[t] = "fetching"
    /\ entries' = GenericCache_set(key[t], token[t])
    /\ pending' = pending
    /\ ret' = Return(t, "ok", token[t], "fetch", 0)
    /\ token' = [token EXCEPT ![t] = 0]
    /\ fetchLog' = [fetchLog EXCEPT ![token[t]] = "ok"]
    /\ pc' = ReleasedPc(t, key[t])
    /\ rel' = ReleasedRel(t, key[t], "set")
    /\ key' = [key EXCEPT ![t] = "none"]
    /\ waited' = [waited EXCEPT ![t] = 0]
    /\ UNCHANGED <<now, ncalls>>
    /\ heap' = [heap EXCEPT ![token[t]] = token[t]]
    /\ found' = found
    /\ UNCHANGED fetchVars

\* As get_set, but when the map still holds an Arc for the key the new
\* records are written into it, in place of the allocation of a new Arc.
get_set_InPlace(t) ==
    /\ pc[t] = "fetching"
    /\ LET old == entries[key[t]].value
           arc == IF old # 0 THEN old ELSE token[t]
       IN /\ entries' = GenericCache_set(key[t], arc)
          /\ heap' = [heap EXCEPT ![arc] = token[t]]
    /\ pending' = GenericCache_release(key[t])
    /\ ret' = Return(t, "ok", token[t], "fetch", 0)
    /\ token' = [token EXCEPT ![t] = 0]
    /\ fetchLog' = [fetchLog EXCEPT ![token[t]] = "ok"]
    /\ pc' = ReleasedPc(t, key[t])
    /\ rel' = ReleasedRel(t, key[t], "set")
    /\ key' = [key EXCEPT ![t] = "none"]
    /\ waited' = [waited EXCEPT ![t] = 0]
    /\ found' = found
    /\ UNCHANGED <<now, ncalls>>
    /\ UNCHANGED fetchVars

\* Download and load succeed: a clone of the records is stored in a new Arc
\* through write_token, and the records are returned (lines 63-70).
get_set(t) ==
    /\ pc[t] = "fetching"
    /\ entries' = GenericCache_set(key[t], token[t])
    /\ pending' = GenericCache_release(key[t])
    /\ ret' = Return(t, "ok", token[t], "fetch", 0)
    /\ token' = [token EXCEPT ![t] = 0]
    /\ fetchLog' = [fetchLog EXCEPT ![token[t]] = "ok"]
    /\ pc' = ReleasedPc(t, key[t])
    /\ rel' = ReleasedRel(t, key[t], "set")
    /\ key' = [key EXCEPT ![t] = "none"]
    /\ waited' = [waited EXCEPT ![t] = 0]
    /\ UNCHANGED <<now, ncalls>>
    /\ heap' = [heap EXCEPT ![token[t]] = token[t]]
    /\ found' = found
    /\ UNCHANGED fetchVars

\* The future returned by get is dropped while suspended in get_cached (the
\* await of line 44): the call ends without a result.
get_cancel_waiting(t) ==
    /\ pc[t] = "parked"
    /\ ret' = Return(t, "cancelled", 0, "none", 0)
    /\ pc' = [pc EXCEPT ![t] = "idle"]
    /\ key' = [key EXCEPT ![t] = "none"]
    /\ waited' = [waited EXCEPT ![t] = 0]
    /\ rel' = [rel EXCEPT ![t] = NoRelease]
    /\ UNCHANGED <<now, entries, pending, token, ncalls, fetchLog>>
    /\ UNCHANGED <<heap, found>>
    /\ UNCHANGED fetchVars

\* As get_cancel_fetching, but the handle outlives the dropped future (it was
\* moved out of it): the call ends and the PendingSlot stays.
get_cancel_fetching_Leak(t) ==
    /\ pc[t] = "fetching"
    /\ ret' = Return(t, "cancelled", token[t], "none", 0)
    /\ fetchLog' = [fetchLog EXCEPT ![token[t]] = "failed"]
    /\ pc' = [pc EXCEPT ![t] = "idle"]
    /\ key' = [key EXCEPT ![t] = "none"]
    /\ waited' = [waited EXCEPT ![t] = 0]
    /\ rel' = [rel EXCEPT ![t] = NoRelease]
    /\ UNCHANGED <<now, entries, pending, token, ncalls>>
    /\ UNCHANGED <<heap, found>>
    /\ UNCHANGED fetchVars

\* The future is dropped while suspended in the download (the await of line
\* 60): write_token is dropped with it.
get_cancel_fetching(t) ==
    /\ pc[t] = "fetching"
    /\ ret' = Return(t, "cancelled", token[t], "none", 0)
    /\ pending' = GenericCache_release(key[t])
    /\ token' = [token EXCEPT ![t] = 0]
    /\ fetchLog' = [fetchLog EXCEPT ![token[t]] = "failed"]
    /\ pc' = ReleasedPc(t, key[t])
    /\ rel' = ReleasedRel(t, key[t], "drop")
    /\ key' = [key EXCEPT ![t] = "none"]
    /\ waited' = [waited EXCEPT ![t] = 0]
    /\ UNCHANGED <<now, entries, ncalls>>
    /\ UNCHANGED <<heap, found>>
    /\ UNCHANGED fetchVars

\* ----------------------------------------------- AvailablePackagesCache::gc
\* As gc, but every entry is thrown away, whatever its age.
gc_Clear ==
    /\ entries' = [k \in Keys |-> NoEntry]
    /\ ret' = NoReturn
    /\ UNCHANGED <<now, pending, pc, key, token, waited, rel, ncalls, fetchLog>>
    /\ UNCHANGED <<heap, found>>
    /\ UNCHANGED fetchVars

gc ==
    /\ entries' = GenericCache_gc
    /\ ret' = NoReturn
    /\ UNCHANGED <<now, pending, pc, key, token, waited, rel, ncalls, fetchLog>>
    /\ UNCHANGED <<heap, found>>
    /\ UNCHANGED fetchVars

\* The clock advances.
Tick ==
    /\ now < MaxTime
    /\ now' = now + 1
    /\ ret' = NoReturn
    /\ UNCHANGED <<entries, pending, pc, key, token, waited, rel, ncalls, fetchLog>>
    /\ UNCHANGED <<heap, found>>
    /\ UNCHANGED fetchVars

Next ==
    \/ \E t \in Tasks, k \in Keys : get_call(t, k)
    \/ \E t \in Tasks : get_found(t)
    \/ \E t \in Tasks : get_suspend(t)
    \/ \E t \in Tasks : get_park(t)
    \/ \E t \in Tasks : get_not_found(t)
    \/ \E t \in Tasks : get_fetch_err(t)
    \/ \E t \in Tasks : get_load_err(t)
    \/ \E t \in Tasks : get_set(t)
    \/ \E t \in Tasks : get_cancel_waiting(t)
    \/ \E t \in Tasks : get_cancel_fetching(t)
    \/ gc
    \/ Tick

Spec == Init /\ [][Next]_vars

\* The executor polls every runnable task: a task that is about to run
\* get_cached (a new call, or a caller released from suspension) does so,
\* and a poll that has reached the await runs on to it.
Fairness ==
    \A t \in Tasks :
        WF_vars(get_found(t) \/ get_suspend(t) \/ get_not_found(t) \/ get_park(t))

FairSpec == Spec /\ Fairness

\* ------------------------------------------------------------------ C1
\* The tasks that hold the write handle of k, and those downloading for k.
Holders(k) == {t \in Tasks : token[t] # 0 /\ key[t] = k}
Fetching(k) == {t \in Tasks : pc[t] = "fetching" /\ key[t] = k}

\* C1 (single-flight): in every reachable state and for every key, at most
\* one task holds the write handle and at most one download is in flight; the
\* task downloading is the holder, and its handle is the key's PendingSlot.
C1_SingleFlight ==
    \A k \in Keys :
        /\ Cardinality(Holders(k)) <= 1
        /\ Cardinality(Fetching(k)) <= 1
        /\ Fetching(k) = Holders(k)
        /\ \A t \in Holders(k) : pending[k] = token[t]
        /\ (pending[k] # 0 => Holders(k) # {})

\* One task downloads u1 while the two others have asked for u1 too: one is
\* suspended on the slot, one is about to run get_cached.
C1_Witness ==
    \E t, u, w \in Tasks :
        /\ pc[t] = "fetching" /\ key[t] = "u1"
        /\ pc[u] = "waiting" /\ key[u] = "u1"
        /\ pc[w] = "get_cached" /\ key[w] = "u1"

\* ------------------------------------------------------------------ C2
\* N concurrent calls of get for one key on an empty cache, with a download
\* that succeeds: every task has called get("u1") and none has run get_cached.
BurstInit ==
    /\ now = 0
    /\ entries = [k \in Keys |-> NoEntry]
    /\ pending = [k \in Keys |-> 0]
    /\ pc = [t \in Tasks |-> "get_cached"]
    /\ key = [t \in Tasks |-> "u1"]
    /\ token = [t \in Tasks |-> 0]
    /\ waited = [t \in Tasks |-> 0]
    /\ rel = [t \in Tasks |-> NoRelease]
    /\ ret = NoReturn
    /\ ncalls = Cardinality(Tasks)
    /\ fetchLog = [g \in FetchIds |-> NoFetch]
    /\ heap = [g \in FetchIds |-> 0]
    /\ found = {}
    /\ FetchIdle

BurstNext ==
    \/ \E t \in Tasks : get_found(t)
    \/ \E t \in Tasks : get_suspend(t)
    \/ \E t \in Tasks : get_park(t)
    \/ \E t \in Tasks : get_not_found(t)
    \/ \E t \in Tasks : get_set(t)
    \/ gc
    \/ Tick

SpecBurst == BurstInit /\ [][BurstNext]_vars

BurstDone == \A t \in Tasks : pc[t] = "idle"

\* Every call that returns returns the records of the first download, and
\* once all have returned the download has run exactly once.
BurstOnce ==
    /\ ret # NoReturn => (ret.kind = "ok" /\ ret.value = 1)
    /\ BurstDone => Cardinality(Started) = 1

\* C2 as claimed: the N calls make the download run exactly once and all N
\* return the same value.
C2_Original == BurstOnce

\* C2 as amended: the same, as long as the entry stored by the first download
\* is live (it had not expired before a released caller ran its re-check).
C2_BurstOnceWhileLive ==
    (entries["u1"].value = 1 /\ now - entries["u1"].inserted_at < Expiration)
        => BurstOnce

\* All N calls have returned, the last of them a caller that had been
\* suspended and was released by set, after the clock had advanced, and the
\* first entry is still live.
C2_Witness ==
    /\ BurstDone
    /\ entries["u1"].value = 1 /\ now - entries["u1"].inserted_at < Expiration
    /\ ret.kind = "ok" /\ ret.rel.how = "set" /\ ret.src = "cache" /\ ret.age > 0
    /\ Cardinality(Started) = 1

\* ------------------------------------------------------------------ C3
\* The holder of k's handle gives up without calling set: its download or
\* load failed and get returned early, or its future was dropped.
Abandon(t) == get_fetch_err(t) \/ get_load_err(t) \/ get_cancel_fetching(t)

\* Task t completes a run of get_cached in this step.
Queries(t) == pc[t] = "get_cached" /\ pc'[t] # "get_cached"

\* C3 (abandon releases the slot): the step in which a holder's get ends
\* without set releases the key's PendingSlot and the callers suspended on it,
\* and leaves the key so that get_cached answers NotFound (a fresh handle); a
\* caller released by such a drop that re-checks is granted a fresh handle,
\* suspends on a different fetch, or finds an entry; and every such caller
\* eventually completes its re-check, so the key does not stay Pending on
\* the abandoned fetch.
C3_AbandonReleases ==
    /\ [][\A t \in Tasks : \A k \in Keys : (Abandon(t) /\ key[t] = k) =>
            /\ pending'[k] = 0
            /\ token'[t] = 0
            /\ GenericCache_get_cached(k)' = "NotFound"
            /\ \A u \in Waiters(k) : pc'[u] = "get_cached" /\ rel'[u].how = "drop"]_vars
    /\ [][\A t \in Tasks : (Queries(t) /\ rel[t].how = "drop") =>
            \/ pc'[t] = "fetching" /\ token'[t] # waited[t] /\ pending'[key[t]] = token'[t]
            \/ pc'[t] = "waiting" /\ waited'[t] # waited[t]
            \/ pc'[t] = "idle" /\ ret'.task = t /\ ret'.kind = "ok"]_vars
    /\ \A t \in Tasks :
            (pc[t] = "get_cached" /\ rel[t].how = "drop") ~> (pc[t] # "get_cached")

\* A caller that was suspended on a fetch that failed now holds the fresh
\* write handle of the key and downloads.
C3_Witness ==
    \E t \in Tasks :
        /\ rel[t].how = "drop" /\ pc[t] = "fetching"
        /\ fetchLog[waited[t]] = "failed"
        /\ pending[key[t]] = token[t]

\* ------------------------------------------------------------------ C4
\* C4 (expiry correctness): an entry inserted at T stays in the map, unchanged,
\* through every step taken at a time T' < T + ttl, and a get_cached that runs
\* at such a time returns it as Found; a get_cached that runs at T' >= T + ttl
\* does not return it: the caller is granted the write handle (NotFound, a new
\* fetch) or, if another caller's fetch is already in flight, suspends on it.
C4_Expiry ==
    [][\A k \in Keys : entries[k].value # 0 =>
        LET T == entries[k].inserted_at IN
        /\ now < T + Expiration => entries'[k] = entries[k]
        /\ \A t \in Tasks : (Queries(t) /\ key[t] = k) =>
              IF now < T + Expiration
              THEN /\ pc'[t] = "idle"
                   /\ ret' = Return(t, "ok", entries[k].value, "cache", now - T)
                   /\ token'[t] = 0
              ELSE /\ pc'[t] \in {"fetching", "waiting"}
                   /\ pending[k] = 0 =>
                        (pc'[t] = "fetching" /\ token'[t] # 0 /\ pending'[k] = token'[t])
                   /\ pending[k] # 0 => (pc'[t] = "waiting" /\ pending'[k] = pending[k])
      ]_vars

\* A caller suspended on the fetch that stored an entry at T was released by
\* that set and ran its re-check at T' = T + ttl, with the entry still in the
\* map: it was granted the handle and downloads.
C4_Witness ==
    \E t \in Tasks :
        /\ pc[t] = "fetching" /\ rel[t].how = "set"
        /\ entries[key[t]].value = waited[t]
        /\ entries[key[t]].inserted_at = rel[t].at
        /\ Age(key[t]) >= Expiration

\* ------------------------------------------------------------------ C5
\* C5 (gc removes only entries older than the ttl): a gc step leaves every
\* entry with now - inserted_at <= ttl in the map with the same value and
\* time, removes only entries with now - inserted_at > ttl, and changes no
\* PendingSlot and no write handle, in whatever state it runs.
C5_GcOnlyExpired ==
    [][gc =>
        /\ \A k \in Keys :
            /\ (entries[k].value # 0 /\ now - entries[k].inserted_at <= Expiration)
                    => entries'[k] = entries[k]
            /\ entries'[k] # entries[k]
                    => (entries'[k] = NoEntry /\ now - entries[k].inserted_at > Expiration)
        /\ pending' = pending
        /\ token' = token
        /\ pc' = pc
      ]_vars

\* Two fetches have stored an entry; gc has removed the one of them, while the
\* other key has a PendingSlot and still holds an entry whose age equals the
\* ttl.
C5_Witness ==
    \E k, j \in Keys :
        /\ k # j /\ entries[j] = NoEntry
        /\ Cardinality({g \in FetchIds : fetchLog[g] = "ok"}) = 2
        /\ pending[k] # 0
        /\ entries[k].value # 0 /\ Age(k) = Expiration

\* ------------------------------------------------------------------ C6
\* C6 (no stale or partial value): every value a call of get returns was
\* stored or produced by a fetch that completed successfully, and is either
\* the result of the fetch this call itself completed as the holder of the
\* handle, or a cached entry whose age when it was read did not exceed the ttl.
C6_NoStaleOrPartial ==
    ret.kind = "ok" =>
        LET g == ret.value IN
        /\ g \in FetchIds
        /\ fetchLog[g] = "ok"
        /\ \/ ret.src = "fetch" /\ ret.held = g /\ ret.age = 0
           \/ ret.src = "cache" /\ ret.held = 0 /\ ret.age <= Expiration

\* A call is served from the cache records that were already older, stored
\* by the second fetch after the first fetch had failed.
C6_Witness ==
    /\ ret.kind = "ok" /\ ret.src = "cache" /\ ret.age > 0
    /\ ret.value = 2
    /\ fetchLog[1] = "failed"

\* ------------------------------------------------------------------ C7
\* The state of key k, an entry in the map counting as Present.
KeyStateInMap(k) ==
    IF pending[k] # 0 THEN "Pending"
    ELSE IF entries[k].value # 0 THEN "Present"
    ELSE "Absent"

\* The state of key k, only a live entry counting as Present: an expired
\* entry that gc has not yet removed is Absent, as get_cached treats it.
KeyState(k) ==
    IF pending[k] # 0 THEN "Pending"
    ELSE IF Live(k) THEN "Present"
    ELSE "Absent"

\* The transitions of the state machine per key.
Transitions ==
    {<<"Absent", "Pending">>, <<"Pending", "Present">>,
     <<"Present", "Absent">>, <<"Pending", "Absent">>}

\* C7 as claimed: a key changes state only along Absent -> Pending (handle
\* granted), Pending -> Present (set), Present -> Absent (gc removes the
\* expired entry) and Pending -> Absent (handle dropped).
C7_Original ==
    [][\A k \in Keys : KeyStateInMap(k)' # KeyStateInMap(k) =>
        /\ <<KeyStateInMap(k), KeyStateInMap(k)'>> \in Transitions
        /\ <<KeyStateInMap(k), KeyStateInMap(k)'>> = <<"Present", "Absent">> => gc
      ]_vars

\* C7 as amended: with Present meaning a live entry, a key changes state only
\* along Absent -> Pending (a caller is granted the handle), Pending ->
\* Present (set), Present -> Absent (the entry's age reaches the ttl) and
\* Pending -> Absent (the handle is dropped without set); gc changes the
\* state of no key.
C7_KeyStateMachine ==
    [][\A k \in Keys :
        /\ KeyState(k)' # KeyState(k) =>
            /\ <<KeyState(k), KeyState(k)'>> \in Transitions
            /\ <<KeyState(k), KeyState(k)'>> = <<"Absent", "Pending">> =>
                    \E t \in Tasks : get_not_found(t) /\ key[t] = k
            /\ <<KeyState(k), KeyState(k)'>> = <<"Pending", "Present">> =>
                    \E t \in Tasks : get_set(t) /\ key[t] = k
            /\ <<KeyState(k), KeyState(k)'>> = <<"Present", "Absent">> =>
                    (Tick /\ Age(k)' = Expiration)
            /\ <<KeyState(k), KeyState(k)'>> = <<"Pending", "Absent">> =>
                    \E t \in Tasks : Abandon(t) /\ key[t] = k
        /\ gc => KeyState(k)' = KeyState(k)
      ]_vars

\* A key has gone round the whole cycle: its first fetch was dropped, the
\* second stored an entry that expired and was removed by gc, and the third
\* is in flight.
C7_Witness ==
    \E k \in Keys :
        /\ fetchLog[1] = "failed" /\ fetchLog[2] = "ok" /\ pending[k] = 3
        /\ entries = [j \in Keys |-> NoEntry]

C9_FailureToHolderOnly ==
    /\ ret.kind = "err" =>
        /\ ret.held # 0 /\ ret.value = ret.held
        /\ fetchLog[ret.held] = "failed"
        /\ pc[ret.task] = "idle"
    /\ (ret.kind \in {"ok", "err"} /\ ret.waited # 0) =>
        \/ ret.kind = "ok" /\ ret.src = "cache" /\ ret.held = 0
        \/ ret.held # 0 /\ ret.held # ret.waited /\ ret.value = ret.held

\* The holder's fetch has just failed and the error was returned to it; the
\* two callers that were suspended on the key have been released and are
\* about to re-check.
C9_Witness ==
    \E u, w \in Tasks :
        /\ u # w
        /\ ret.kind = "err" /\ ret.held = 1
        /\ pc[u] = "get_cached" /\ rel[u].how = "drop" /\ waited[u] = 1
        /\ pc[w] = "get_cached" /\ rel[w].how = "drop" /\ waited[w] = 1

\* ------------------------------------------------------ fetch::get_repodata
\* get_repodata is not called by AvailablePackagesCache::get, which downloads
\* through rattler_repodata_gateway; it is modelled as a run of its own.

\* As get_repodata_url, but the bzip2 variant is tried first.
get_repodata_url_Bz2First(has_zst, has_bz2) ==
    IF has_bz2 THEN [file |-> "repodata.json.bz2", encoding |-> "Bz2"]
    ELSE IF has_zst THEN [file |-> "repodata.json.zst", encoding |-> "Zst"]
    ELSE [file |-> "repodata.json", encoding |-> "None"]

\* The file joined to subdir_url and the Option<Encoding> returned with it.
get_repodata_url(has_zst, has_bz2) ==
    IF has_zst THEN [file |-> "repodata.json.zst", encoding |-> "Zst"]
    ELSE IF has_bz2 THEN [file |-> "repodata.json.bz2", encoding |-> "Bz2"]
    ELSE [file |-> "repodata.json", encoding |-> "None"]

\* The format of the body the server sends for a file.
FormatOf(file) ==
    CASE file = "repodata.json.zst" -> "zst"
      [] file = "repodata.json.bz2" -> "bz2"
      [] OTHER -> "plain"

\* The reader built by the match on `encoding`.
DecoderFor(enc) ==
    CASE enc = "Zst" -> "ZstdDecoder"
      [] enc = "Bz2" -> "BzDecoder"
      [] OTHER -> "StreamReader"

\* The format a reader decodes.
Decodes(dec) ==
    CASE dec = "ZstdDecoder" -> "zst"
      [] dec = "BzDecoder" -> "bz2"
      [] OTHER -> "plain"

\* The bodies a response can deliver: up to MaxChunks chunks, any of which may
\* instead be an I/O error of the connection or bytes that are not valid data
\* of the file's format.
Bodies == UNION {[1..n -> {"chunk", "io_err", "corrupt"}] : n \in 0..MaxChunks}

\* get_repodata is called against some server.
FetchInit ==
    /\ CacheInit
    /\ fpc = "start"
    /\ avail \in [zst : BOOLEAN, bz2 : BOOLEAN]
    /\ server \in [status_ok : BOOLEAN, valid_json : BOOLEAN]
    /\ stream \in Bodies
    /\ url = "none"
    /\ encoding = "unset"
    /\ decoder = "none"
    /\ json_bytes = [len |-> 0, document |-> TRUE]
    /\ parse_ctx = "none"
    /\ outcome = "none"

\* get_repodata_url is awaited (line 15).
get_repodata_negotiate ==
    /\ fpc = "start"
    /\ url' = get_repodata_url(avail.zst, avail.bz2).file
    /\ encoding' = get_repodata_url(avail.zst, avail.bz2).encoding
    /\ fpc' = "send"
    /\ UNCHANGED <<avail, server, stream, decoder, json_bytes, parse_ctx, outcome>>
    /\ UNCHANGED cacheVars

\* The request is sent and the status checked (line 16).
get_repodata_send ==
    /\ fpc = "send"
    /\ IF server.status_ok
       THEN fpc' = "decode" /\ outcome' = outcome
       ELSE fpc' = "done" /\ outcome' = "http_error"
    /\ UNCHANGED <<avail, server, stream, url, encoding, decoder, json_bytes, parse_ctx>>
    /\ UNCHANGED cacheVars

\* stream_and_decode_to_memory: the match on `encoding` builds the reader
\* (lines 27-49).
stream_begin ==
    /\ fpc = "decode"
    /\ decoder' = DecoderFor(encoding)
    /\ json_bytes' = [len |-> 0, document |-> TRUE]
    /\ fpc' = "read"
    /\ UNCHANGED <<avail, server, stream, url, encoding, parse_ctx, outcome>>
    /\ UNCHANGED cacheVars

\* The next chunk of the body makes read_to_end fail: the connection reports
\* an I/O error, or a decompressing reader is given bytes it cannot decode
\* (the plain StreamReader passes any bytes on).
ReadFails(chunk) ==
    \/ chunk = "io_err"
    \/ /\ decoder # "StreamReader"
       /\ chunk = "corrupt" \/ Decodes(decoder) # FormatOf(url)

\* As stream_read, but a failed read is swallowed and what was read so far is
\* handed to the parse step.
stream_read_Truncate ==
    /\ fpc = "read"
    /\ stream # <<>>
    /\ stream' = Tail(stream)
    /\ IF ReadFails(Head(stream))
       THEN /\ fpc' = "parse"
            /\ outcome' = outcome
            /\ json_bytes' = json_bytes
       ELSE /\ json_bytes' = [len |-> json_bytes.len + 1,
                              document |-> /\ json_bytes.document
                                           /\ Head(stream) = "chunk"
                                           /\ Decodes(decoder) = FormatOf(url)]
            /\ UNCHANGED <<fpc, outcome>>
    /\ UNCHANGED <<avail, server, url, encoding, decoder, parse_ctx>>
    /\ UNCHANGED cacheVars

\* read_to_end takes the next chunk of the body: it is appended to
\* json_bytes, decoded; an I/O error, or data the decoder cannot decode, ends
\* get_repodata with the error (`?` of lines 37, 42, 47, 54, 17).
stream_read ==
    /\ fpc = "read"
    /\ stream # <<>>
    /\ stream' = Tail(stream)
    /\ IF ReadFails(Head(stream))
       THEN /\ fpc' = "done"
            /\ outcome' = "io_error"
            /\ json_bytes' = json_bytes
       ELSE /\ json_bytes' = [len |-> json_bytes.len + 1,
                              document |-> /\ json_bytes.document
                                           /\ Head(stream) = "chunk"
                                           /\ Decodes(decoder) = FormatOf(url)]
            /\ UNCHANGED <<fpc, outcome>>
    /\ UNCHANGED <<avail, server, url, encoding, decoder, parse_ctx>>
    /\ UNCHANGED cacheVars

\* read_to_end reaches the end of the body (line 54).
stream_eof ==
    /\ fpc = "read"
    /\ stream = <<>>
    /\ fpc' = "parse"
    /\ UNCHANGED <<avail, server, stream, url, encoding, decoder, json_bytes, parse_ctx, outcome>>
    /\ UNCHANGED cacheVars

\* serde_json::from_slice runs on the blocking pool and its result is
\* returned (lines 56-63, 17-18).
stream_parse ==
    /\ fpc = "parse"
    /\ parse_ctx' = "blocking"
    /\ outcome' = IF json_bytes.document /\ json_bytes.len > 0 /\ server.valid_json
                  THEN "records" ELSE "parse_error"
    /\ fpc' = "done"
    /\ UNCHANGED <<avail, server, stream, url, encoding, decoder, json_bytes>>
    /\ UNCHANGED cacheVars

FetchNext ==
    \/ get_repodata_negotiate
    \/ get_repodata_send
    \/ stream_begin
    \/ stream_read
    \/ stream_eof
    \/ stream_parse

SpecFetch == FetchInit /\ [][FetchNext]_vars

\* ------------------------------------------------------------------ C10
\* C10 (variant preference): once the negotiator has run, the selected file
\* is repodata.json.zst when zstd is available, else repodata.json.bz2 when
\* bzip2 is available, else repodata.json, for every combination of the two;
\* and the encoding handed on, and the reader built from it, are those of the
\* selected file's suffix.
C10_VariantPreference ==
    fpc # "start" =>
        /\ avail.zst => url = "repodata.json.zst"
        /\ (~avail.zst /\ avail.bz2) => url = "repodata.json.bz2"
        /\ (~avail.zst /\ ~avail.bz2) => url = "repodata.json"
        /\ (url = "repodata.json.zst") <=> (encoding = "Zst")
        /\ (url = "repodata.json.bz2") <=> (encoding = "Bz2")
        /\ (url = "repodata.json") <=> (encoding = "None")
        /\ decoder # "none" =>
            /\ (url = "repodata.json.zst") <=> (decoder = "ZstdDecoder")
            /\ (url = "repodata.json.bz2") <=> (decoder = "BzDecoder")
            /\ (url = "repodata.json") <=> (decoder = "StreamReader")

\* Against a server that offers both compressed variants, the zstd file was
\* selected, read through the zstd decoder and parsed into records.
C10_Witness ==
    /\ avail.zst /\ avail.bz2
    /\ url = "repodata.json.zst" /\ encoding = "Zst" /\ decoder = "ZstdDecoder"
    /\ json_bytes.len > 1
    /\ fpc = "done" /\ outcome = "records"

\* ------------------------------------------------------------------ C11
\* C11 (immutability): every Arc that a Found result has handed out still
\* holds the records it held when it was returned, the records of the fetch
\* that stored it, whatever set and gc calls have run since.
C11_Immutable ==
    \A x \in found : heap[x.arc] = x.value /\ x.value = x.arc

\* The records of the first fetch were returned by Found; their entry has
\* since expired and been replaced by a later generation of the same key,
\* stored when the first was exactly ttl old.
C11_Witness ==
    \E k \in Keys :
        /\ [arc |-> 1, value |-> 1] \in found
        /\ entries[k].value = 2 /\ heap[2] = 2
        /\ now = Expiration
        /\ \A j \in Keys \ {k} : entries[j] = NoEntry

\* ------------------------------------------------------------------ C12
\* N concurrent calls of get for one key on an empty cache, with downloads
\* and loads that may fail.
BurstFailNext ==
    \/ \E t \in Tasks : get_found(t)
    \/ \E t \in Tasks : get_suspend(t)
    \/ \E t \in Tasks : get_park(t)
    \/ \E t \in Tasks : get_not_found(t)
    \/ \E t \in Tasks : get_fetch_err(t)
    \/ \E t \in Tasks : get_load_err(t)
    \/ \E t \in Tasks : get_set(t)
    \/ gc
    \/ Tick

SpecBurstFail == BurstInit /\ [][BurstFailNext]_vars

\* The fetches in flight, and those that failed.
InFlight == {g \in FetchIds : fetchLog[g] = "inflight"}
Failed == {g \in FetchIds : fetchLog[g] = "failed"}

\* C12 as claimed: the fetch for the key is executed at most twice in total,
\* the first attempt plus one retry.
C12_Original == Cardinality(Started) <= 2

\* C12 as amended: the fetch is executed at most once per calling caller (N
\* times in total), one fetch at a time, and, until an entry can have
\* expired, a further fetch starts only after every earlier one has failed.
C12_RetryPerCaller ==
    /\ Cardinality(Started) <= Cardinality(Tasks)
    /\ Cardinality(InFlight) <= 1
    /\ now < Expiration => Cardinality(Started) <= Cardinality(Failed) + 1

\* All N calls have ended, each with the failure of its own fetch: the fetch
\* ran N times before any entry could have expired.
C12_Witness ==
    /\ BurstDone
    /\ Failed = 1..Cardinality(Tasks)
    /\ ret.kind = "err" /\ ret.waited # 0
    /\ now < Expiration

\* ------------------------------------------------------------------ C13
\* C13 (a cache hit has no side effects): when a call runs get_cached while a
\* live entry exists for its key, the call ends in that step with the
\* entry's records; it starts no fetch, is granted no handle and does not
\* suspend, and the entry map, the PendingSlots, the stored Arcs and every
\* other call are left as they were.
C13_HitNoSideEffects ==
    [][\A t \in Tasks : \A k \in Keys :
        (pc[t] = "get_cached" /\ key[t] = k /\ pc'[t] # pc[t]
            /\ entries[k].value # 0 /\ now - entries[k].inserted_at < Expiration) =>
            /\ pc'[t] = "idle"
            /\ ret' = Return(t, "ok", entries[k].value, "cache", now - entries[k].inserted_at)
            /\ entries' = entries
            /\ pending' = pending
            /\ fetchLog' = fetchLog
            /\ token' = token
            /\ heap' = heap
            /\ \A u \in Tasks \ {t} : pc'[u] = pc[u] /\ key'[u] = key[u] /\ rel'[u] = rel[u]
      ]_vars

\* A call has just been served an entry that was already older, while the
\* fetch for the other key is in flight.
C13_Witness ==
    \E u \in Tasks :
        /\ ret.kind = "ok" /\ ret.src = "cache" /\ ret.age > 0
        /\ pc[u] = "fetching" /\ key[u] # ret.key /\ pending[key[u]] = token[u]
        /\ entries[ret.key].value = ret.value

\* ------------------------------------------------------------------ C14
\* Caller t is suspended: registered on a PendingSlot, parked or about to.
Suspended(t) == pc[t] \in {"waiting", "parked"}

\* C14 (no lost wakeup): a suspended caller is always suspended on the
\* PendingSlot that its key has now; the step that resolves that slot, by set
\* or by drop, makes the caller runnable again, whether it had already parked
\* or had only seen the slot and was about to park; and under fair scheduling
\* every caller so released runs its re-check.
C14_NoLostWakeup ==
    /\ [](\A t \in Tasks : Suspended(t) =>
            (waited[t] # 0 /\ pending[key[t]] = waited[t]))
    /\ [][\A t \in Tasks : (Suspended(t) /\ pending'[key[t]] # waited[t]) =>
            (pc'[t] = "get_cached" /\ rel'[t].how \in {"set", "drop"})]_vars
    /\ \A t \in Tasks :
            (pc[t] = "get_cached" /\ rel[t].how # "none") ~> (pc[t] # "get_cached")

\* The holder's set has just released two callers: one that had parked, and
\* one that had seen the PendingSlot but had not parked yet; both are
\* runnable and about to re-check.
C14_Witness ==
    \E u, w \in Tasks :
        /\ ret.kind = "ok" /\ ret.src = "fetch"
        /\ u \in ret.early /\ w \notin ret.early
        /\ pc[u] = "get_cached" /\ rel[u].how = "set" /\ waited[u] = ret.held
        /\ pc[w] = "get_cached" /\ rel[w].how = "set" /\ waited[w] = ret.held

\* ------------------------------------------------------------------ C15
\* C15 (no handle is leaked): a PendingSlot exists only on behalf of a call
\* of get that is running its fetch with the slot's handle; and the step in
\* which such a call ends, by a fetch error, a load error, success or the
\* drop of its future, consumes the handle by set (the entry is stored) or
\* drops it: the key's PendingSlot is gone and the call holds no handle.
C15_NoHandleLeak ==
    /\ [](\A k \in Keys : pending[k] # 0 =>
            \E t \in Tasks : pc[t] = "fetching" /\ key[t] = k /\ token[t] = pending[k])
    /\ [][\A t \in Tasks : \A k \in Keys :
            (pc[t] = "fetching" /\ key[t] = k /\ pc'[t] # "fetching") =>
                /\ pc'[t] = "idle" /\ token'[t] = 0
                /\ pending'[k] = 0
                /\ ret'.task = t /\ ret'.held = token[t]
                /\ \/ ret'.kind = "ok" /\ entries'[k].value = token[t]
                      /\ fetchLog'[token[t]] = "ok"
                   \/ ret'.kind \in {"err", "cancelled"} /\ entries'[k] = entries[k]
                      /\ fetchLog'[token[t]] = "failed"
      ]_vars

\* Three calls were granted a handle and have ended, the first with an
\* error, the second by set and the third, just now, by the drop of its
\* future: no PendingSlot and no handle is left.
C15_Witness ==
    /\ ret.kind = "cancelled" /\ ret.held = 3
    /\ fetchLog[1] = "failed" /\ fetchLog[2] = "ok" /\ fetchLog[3] = "failed"
    /\ \A k \in Keys : pending[k] = 0
    /\ \A t \in Tasks : pc[t] = "idle" /\ token[t] = 0

\* ------------------------------------------------------------------ C16
\* C16 (a failed get leaves the entries unchanged): the step in which a call
\* of get ends with an error (the download failed, or the document did not
\* load) stores nothing: every entry and every stored Arc is as before, the
\* fetch is recorded as failed, and of the PendingSlots only the one of the
\* call's key changes, which is released.
C16_FailedGetKeepsEntries ==
    [][\A t \in Tasks : \A k \in Keys :
        (pc[t] = "fetching" /\ key[t] = k /\ ret'.task = t /\ ret'.kind = "err") =>
            /\ ret'.src \in {"FetchRepoDataJson", "Internal"}
            /\ entries' = entries
            /\ heap' = heap
            /\ fetchLog'[token[t]] = "failed"
            /\ pending' = [pending EXCEPT ![k] = 0]
            /\ pending[k] = token[t]
      ]_vars

\* A call that fetched for a key whose expired entry is still in the map has
\* just ended with a load error; that entry and the entry of the other key
\* are in the map.
C16_Witness ==
    /\ ret.kind = "err" /\ ret.src = "Internal"
    /\ entries[ret.key].value # 0 /\ Age(ret.key) >= Expiration
    /\ pending[ret.key] = 0
    /\ \A k \in Keys : entries[k].value # 0

\* ------------------------------------------------------------------ C17
\* C17 as claimed: no parse step runs on the context that drives I/O,
\* neither the parse of the fetch pipeline nor the load of the records in
\* get.
C17_ParseOffIoContext ==
    /\ parse_ctx # "io"
    /\ ret.load_ctx # "io"

\* ------------------------------------------------------------------ C18
\* C18 (decode-then-parse ordering): the parse step starts only when the
\* body has been read to its end through the reader of the selected mode and
\* no read has failed; a stream read or decompression step that fails ends
\* the call with the error in that step, leaving the buffer as it was; and
\* a call that ended with a read error never ran the parse step and returns
\* no records.
C18_DecodeThenParse ==
    /\ [](/\ fpc = "parse" => stream = <<>> /\ outcome = "none" /\ parse_ctx = "none"
          /\ parse_ctx # "none" =>
                /\ stream = <<>>
                /\ fpc = "done"
                /\ outcome \in {"records", "parse_error"}
                /\ decoder = DecoderFor(encoding)
          /\ outcome = "io_error" => fpc = "done" /\ parse_ctx = "none")
    /\ [][/\ (fpc = "read" /\ stream # <<>> /\ ReadFails(Head(stream))) =>
                /\ fpc' = "done"
                /\ outcome' = "io_error"
                /\ parse_ctx' = "none"
                /\ json_bytes' = json_bytes
          /\ parse_ctx' # parse_ctx =>
                /\ fpc = "parse"
                /\ stream = <<>>
                /\ outcome = "none"
          /\ outcome = "io_error" => outcome' = "io_error" /\ parse_ctx' = "none"]_vars

\* A bzip2 body whose second chunk could not be read or decoded: the call
\* ended with the error after one chunk was in the buffer, and no parse ran.
C18_Witness ==
    /\ decoder = "BzDecoder"
    /\ json_bytes.len = 1
    /\ fpc = "done" /\ outcome = "io_error"
    /\ parse_ctx = "none"

\* ------------------------------------------------------------------ C19
\* All that the cache holds for k and for the calls on k: the entry and the
\* records of its Arc, the PendingSlot, what get_cached(k) answers, and the
\* position, handle and suspension of every call on k.
KeyView(k) ==
    [entry |-> entries[k],
     records |-> IF entries[k].value = 0 THEN 0 ELSE heap[entries[k].value],
     slot |-> pending[k],
     answer |-> GenericCache_get_cached(k),
     calls |-> [t \in Tasks |->
                    IF key[t] = k THEN <<pc[t], token[t], waited[t], rel[t]>> ELSE <<>>]]

\* C19 (key independence): a step of a call of get on one key (a get_cached
\* that is answered, a PendingSlot installed, a set, a failure or an
\* abandonment) changes nothing of any other key: not its entry, its
\* PendingSlot or the answer get_cached gives for it, and no call on it is
\* suspended, released or otherwise moved.
C19_KeyIndependence ==
    [][\A t \in Tasks, b \in Keys :
            (pc'[t] # pc[t] /\ b # key[t] /\ b # key'[t]) => KeyView(b)' = KeyView(b)]_vars

\* A fetch for one key has just been stored and returned while, on the other
\* key, one call holds the PendingSlot and another is parked on it.
C19_Witness ==
    /\ ret.kind = "ok" /\ ret.src = "fetch"
    /\ entries[ret.key].value = ret.value
    /\ \E u, w \in Tasks :
        /\ key[u] # ret.key /\ key[w] = key[u]
        /\ pc[u] = "fetching" /\ pending[key[u]] = token[u]
        /\ pc[w] = "parked" /\ waited[w] = token[u]

\* ------------------------------------------------------------------ C20
\* C20 (pending and live are exclusive): in every reachable state no key has
\* both a PendingSlot and a live entry; a step that installs a PendingSlot
\* for a key does so when the key has no live entry; and a step that stores
\* an entry for a key removes the key's PendingSlot in that same step,
\* leaving the new entry live.
C20_PendingLiveExclusive ==
    /\ [](\A k \in Keys : ~(pending[k] # 0 /\ Live(k)))
    /\ [][\A k \in Keys :
            /\ (pending[k] = 0 /\ pending'[k] # 0) => ~Live(k) /\ ~Live(k)'
            /\ (entries'[k] # entries[k] /\ entries'[k].value # 0) =>
                    /\ pending[k] # 0
                    /\ pending'[k] = 0
                    /\ Live(k)']_vars

\* The entry of the first fetch had expired, a second fetch for the key ran
\* with a caller suspended on its PendingSlot, and set has just stored its
\* records: the entry is live again, the slot is gone and the caller is
\* released.
C20_Witness ==
    /\ ret.kind = "ok" /\ ret.src = "fetch" /\ ret.held = 2
    /\ fetchLog[1] = "ok"
    /\ now >= Expiration
    /\ entries[ret.key] = [value |-> 2, inserted_at |-> now]
    /\ pending[ret.key] = 0
    /\ \A k \in Keys \ {ret.key} : entries[k] = NoEntry /\ pending[k] = 0
    /\ \E w \in Tasks : pc[w] = "get_cached" /\ key[w] = ret.key /\ rel[w].how = "set"

====
